---------------------------- MODULE Spec2Model ----------------------------
(***************************************************************************)
(* A model of the three conversion scripts of json_n_xliff:                *)
(*   json-to-xliff.js              (src/unnamed/part_000, lines 1-138)     *)
(*   xliff-to-json.js              (src/unnamed/part_000, lines 139-290)   *)
(*   json-consolidation-to-xliff.js                                        *)
(* JavaScript strings are sequences of one-character strings, so that key  *)
(* synthesis, the key regular expression and XML escaping are computed     *)
(* character by character.  JavaScript values are tagged records.          *)
(***************************************************************************)
EXTENDS Integers, Sequences, FiniteSets, TLC

VARIABLES
    prog,             \* which script this process runs
    pc,               \* position inside main()
    exitCode,         \* -1 while running, else the process exit code
    log,              \* console.error / console.warn lines, in order
    files,            \* the paths that exist on disk
    now,              \* Date.now()
    idx,              \* position of the running forEach
    pending,          \* "throw" while an exception unwinds through finally
    \* json-to-xliff.js
    jsonIn,           \* content of <input.json>
    jsonData,
    sourceJson,
    targetJson,
    outXliff,         \* content of <output.xliff>
    \* xliff-to-json.js
    xliffIn,          \* content of <input.xliff>
    flatJsonData,
    transformedData,
    processedUuids,
    outJson,          \* content of <output.json>
    \* json-consolidation-to-xliff.js
    sourceFile,
    targetFile,
    sourceData,
    targetData,
    targetMap,
    translatableFields,
    transUnits,
    unitCount,
    outConsolidated,  \* content of the consolidated <output.xliff>
    \* a call of escapeXml on its own
    callText,         \* the argument
    callResult        \* the value returned

convVars == <<jsonIn, jsonData, sourceJson, targetJson, outXliff,
              xliffIn, flatJsonData, transformedData, processedUuids, outJson>>
consVars == <<sourceFile, targetFile, sourceData, targetData, targetMap,
              translatableFields, transUnits, unitCount, outConsolidated>>
procVars == <<prog, pc, exitCode, log, files, now, idx, pending>>
callVars == <<callText, callResult>>
vars == <<procVars, convVars, consVars, callVars>>

---------------------------------------------------------------------------
(* Bounds of the model.                                                    *)
MaxItems == 2      \* records in an input array of json-to-xliff.js
MaxKeys == 3       \* keys in a flat mapping handed to xliff-to-json.js
MaxClock == 1      \* Date.now() ranges over 0..MaxClock
MaxText == 3       \* characters in a text handed to escapeXml on its own

---------------------------------------------------------------------------
(* JavaScript values.                                                      *)
Undefined == [t |-> "undefined"]
Null == [t |-> "null"]
Str(s) == [t |-> "string", s |-> s]
Num(n) == [t |-> "number", n |-> n]
Arr(a) == [t |-> "array", a |-> a]
PlainObject == [t |-> "object"]
NoFile == [t |-> "nofile"]
InvalidJson == [t |-> "invalid"]

\* if (v), v && ..., v || ...
Truthy(v) == IF v.t = "string" THEN Len(v.s) > 0
             ELSE IF v.t = "number" THEN v.n # 0
             ELSE v.t \in {"array", "object"}

IsArray(v) == v.t = "array"

\* An object is the sequence of its own properties in Object.keys order.
Prop(k, v) == [k |-> k, v |-> v]

HasKey(obj, k) == \E i \in 1..Len(obj) : obj[i].k = k

Get(obj, k) ==
    IF HasKey(obj, k)
    THEN obj[CHOOSE i \in 1..Len(obj) : obj[i].k = k].v
    ELSE Undefined

\* obj[k] = v: an existing property keeps its place, a new one goes last.
Put(obj, k, v) ==
    IF HasKey(obj, k)
    THEN [i \in 1..Len(obj) |-> IF obj[i].k = k THEN Prop(k, v) ELSE obj[i]]
    ELSE Append(obj, Prop(k, v))

ObjectKeys(obj) == [i \in 1..Len(obj) |-> obj[i].k]

OrElse(v, w) == IF Truthy(v) THEN v ELSE w

SeqsUpTo(S, n) == UNION {[1..m -> S] : m \in 0..n}

Range(s) == {s[i] : i \in 1..Len(s)}

NoDup(s) == \A i, j \in 1..Len(s) : i # j => s[i] # s[j]

---------------------------------------------------------------------------
(* Text.                                                                   *)
kUuid == <<"u","u","i","d">>
kTitle == <<"t","i","t","l","e">>
kBody == <<"b","o","d","y">>
kName == <<"n","a","m","e">>
Underscore == <<"_">>
GeneratedPrefix == <<"g","e","n","e","r","a","t","e","d","-">>
Hyphen == <<"-">>

U1 == <<"9","7","3","f","c","b","7","a","-","1","5","4","a","-","4","6","f","7","-","b","7","c","6","-","1","3","4","a","1","6","a","4","6","e","a","3">>
U2 == <<"3","6","d","d","f","c","e","e","-","a","6","5","4","-","4","e","6","d","-","8","d","d","2","-","7","7","6","1","f","3","b","3","c","0","0","5">>
UUpper == <<"9","7","3","F","C","B","7","A","-","1","5","4","A","-","4","6","F","7","-","B","7","C","6","-","1","3","4","A","1","6","A","4","6","E","A","3">>
UFlat == <<"9","7","3","f","c","b","7","a","1","5","4","a","4","6","f","7","b","7","c","6","1","3","4","a","1","6","a","4","6","e","a","3","-","-","-","-">>
UShort == <<"X">>

Digits == <<"0","1","2","3","4","5","6","7","8","9">>

\* Number to string inside a template literal.
RECURSIVE Dec(_)
Dec(n) == IF n < 10 THEN <<Digits[n + 1]>>
          ELSE Dec(n \div 10) \o <<Digits[(n % 10) + 1]>>

\* A faulty variant of the template of lines 64-65 and 84: no separator.
SynthKeyNoSeparator(uuid, field) == uuid \o field

\* `${uuid}_${field}`
SynthKey(uuid, field) == uuid \o Underscore \o field


\* ${v} inside a template literal.
TemplateStr(v) ==
    IF v.t = "string" THEN v.s
    ELSE IF v.t = "number" THEN Dec(v.n)
    ELSE <<"u","n","d","e","f","i","n","e","d">>

---------------------------------------------------------------------------
(* Process plumbing shared by the three scripts.                           *)
Running == pc # "exited"

\* A console.error or console.warn line.
Err(msg) == [level |-> "error", msg |-> msg, about |-> <<>>]
Warn(msg, about) == [level |-> "warn", msg |-> msg, about |-> about]

\* process.exit(code), after the console.error / console.warn lines `lines`.
Exit(code, lines) ==
    /\ pc' = "exited"
    /\ exitCode' = code
    /\ log' = log \o lines
    /\ UNCHANGED prog

Goto(label) ==
    /\ pc' = label
    /\ UNCHANGED <<prog, exitCode, log>>

TempFiles == {"tempSource", "tempTarget"}

---------------------------------------------------------------------------
(* json-to-xliff.js                                                        *)

\* A faulty variant of the condition of line 62: body is not looked at.
QualifiesIgnoringBody(item) ==
    /\ Truthy(Get(item, kUuid))
    /\ Truthy(Get(item, kTitle))

\* The condition of line 62.
Qualifies(item) ==
    /\ Truthy(Get(item, kUuid))
    /\ Truthy(Get(item, kTitle))
    /\ Truthy(Get(item, kBody))

\* Lines 62-65: what one forEach iteration does to sourceJson.
FlattenSource(src, item) ==
    IF Qualifies(item)
    THEN LET u == TemplateStr(Get(item, kUuid))
         IN  Put(Put(src, SynthKey(u, kTitle), Get(item, kTitle)),
                 SynthKey(u, kBody), Get(item, kBody))
    ELSE src

\* A faulty variant of lines 67-68: only the title key is initialised.
FlattenTargetTitleOnly(trg, item) ==
    IF Qualifies(item)
    THEN Put(trg, SynthKey(TemplateStr(Get(item, kUuid)), kTitle), Str(<<>>))
    ELSE trg

\* Lines 62, 67-68: what one forEach iteration does to targetJson.
FlattenTarget(trg, item) ==
    IF Qualifies(item)
    THEN LET u == TemplateStr(Get(item, kUuid))
         IN  Put(Put(trg, SynthKey(u, kTitle), Str(<<>>)),
                 SynthKey(u, kBody), Str(<<>>))
    ELSE trg

\* The engine (node_modules/@leading-works/json2xliff) is not part of the
\* repository.  The document it writes is kept as the two flat mappings it
\* was given; reading a document back yields its source mapping.
EngineToXliff(src, trg) == [t |-> "xliff", src |-> src, trg |-> trg]
EngineFromXliff(x) == x.src

J2X_CheckInput ==
    /\ prog = "json2xliff" /\ pc = "start"
    /\ IF jsonIn = NoFile
       THEN Exit(1, <<Err("input file does not exist")>>)
       ELSE Goto("read")
    /\ UNCHANGED <<files, now, idx, pending, convVars, consVars>>
    /\ UNCHANGED callVars

\* Line 48; a SyntaxError goes to the catch of lines 127-134.
J2X_Read ==
    /\ prog = "json2xliff" /\ pc = "read"
    /\ IF jsonIn = InvalidJson
       THEN /\ Exit(1, <<Err("during conversion")>>)
            /\ UNCHANGED jsonData
       ELSE /\ Goto("validate")
            /\ jsonData' = jsonIn
    /\ UNCHANGED <<files, now, idx, pending, jsonIn, sourceJson, targetJson,
                   outXliff, xliffIn, flatJsonData, transformedData,
                   processedUuids, outJson, consVars>>
    /\ UNCHANGED callVars

\* A faulty variant of lines 51-59: the output directory is made before the
\* array test.
J2X_ValidateAfterMkdir ==
    /\ prog = "json2xliff" /\ pc = "validate"
    /\ files' = files \cup {"outDir"}
    /\ IF ~IsArray(jsonData)
       THEN /\ Exit(1, <<Err("JSON file must contain an array")>>)
            /\ UNCHANGED <<sourceJson, targetJson, idx>>
       ELSE /\ Goto("flatten")
            /\ sourceJson' = <<>>
            /\ targetJson' = <<>>
            /\ idx' = 1
    /\ UNCHANGED <<now, pending, jsonIn, jsonData, outXliff, xliffIn,
                   flatJsonData, transformedData, processedUuids, outJson,
                   consVars>>
    /\ UNCHANGED callVars

\* Lines 51-59.
J2X_Validate ==
    /\ prog = "json2xliff" /\ pc = "validate"
    /\ IF ~IsArray(jsonData)
       THEN /\ Exit(1, <<Err("JSON file must contain an array")>>)
            /\ UNCHANGED <<sourceJson, targetJson, idx>>
       ELSE /\ Goto("flatten")
            /\ sourceJson' = <<>>
            /\ targetJson' = <<>>
            /\ idx' = 1
    /\ UNCHANGED <<files, now, pending, jsonIn, jsonData, outXliff, xliffIn,
                   flatJsonData, transformedData, processedUuids, outJson,
                   consVars>>
    /\ UNCHANGED callVars

\* Lines 61-70: one iteration of jsonData.forEach.
J2X_FlattenItem ==
    /\ prog = "json2xliff" /\ pc = "flatten"
    /\ idx <= Len(jsonData.a)
    /\ sourceJson' = FlattenSource(sourceJson, jsonData.a[idx])
    /\ targetJson' = FlattenTarget(targetJson, jsonData.a[idx])
    /\ idx' = idx + 1
    /\ UNCHANGED <<prog, pc, exitCode, log, files, now, pending, jsonIn, jsonData,
                   outXliff, xliffIn, flatJsonData, transformedData,
                   processedUuids, outJson, consVars>>
    /\ UNCHANGED callVars

\* Lines 75-85: the output directory, then the two temp files.
J2X_WriteTemp ==
    /\ prog = "json2xliff" /\ pc = "flatten"
    /\ idx > Len(jsonData.a)
    /\ files' = files \cup {"outDir"} \cup TempFiles
    /\ Goto("engine")
    /\ UNCHANGED <<now, idx, pending, convVars, consVars>>
    /\ UNCHANGED callVars

\* Lines 89-95: execSync either throws, or returns with or without the
\* generated document.
J2X_Engine ==
    /\ prog = "json2xliff" /\ pc = "engine"
    /\ \E outcome \in {"throws", "file", "nofile"} :
         CASE outcome = "throws" ->
                /\ Goto("finally")
                /\ pending' = "throw"
                /\ UNCHANGED <<files, outXliff>>
           [] outcome = "file" ->
                /\ Goto("locate")
                /\ files' = files \cup {"generated"}
                /\ UNCHANGED <<pending, outXliff>>
           [] outcome = "nofile" ->
                /\ Goto("locate")
                /\ UNCHANGED <<files, pending, outXliff>>
    /\ UNCHANGED <<now, idx, jsonIn, jsonData, sourceJson, targetJson, xliffIn,
                   flatJsonData, transformedData, processedUuids, outJson,
                   consVars>>
    /\ UNCHANGED callVars

\* Lines 103-112: process.exit(1) at line 111 ends the process at once.
J2X_Locate ==
    /\ prog = "json2xliff" /\ pc = "locate"
    /\ IF "generated" \in files
       THEN /\ files' = (files \ {"generated"}) \cup {"outputXliff"}
            /\ outXliff' = EngineToXliff(sourceJson, targetJson)
            /\ Goto("finally")
       ELSE /\ Exit(1, <<Err("generated XLIFF file not found")>>)
            /\ UNCHANGED <<files, outXliff>>
    /\ UNCHANGED <<now, idx, pending, jsonIn, jsonData, sourceJson, targetJson,
                   xliffIn, flatJsonData, transformedData, processedUuids,
                   outJson, consVars>>
    /\ UNCHANGED callVars

\* Lines 114-122: unlinkSync of each temp file; a failure is only warned.
J2X_Cleanup ==
    /\ prog = "json2xliff" /\ pc = "finally"
    /\ \E removed \in {TempFiles, {"tempSource"}, {}} :
         /\ files' = files \ removed
         /\ log' = IF removed = TempFiles THEN log
                   ELSE Append(log, Warn("could not clean up temporary files", <<>>))
    /\ pc' = IF pending = "throw" THEN "catch" ELSE "report"
    /\ UNCHANGED <<prog, exitCode, now, idx, pending, convVars, consVars>>
    /\ UNCHANGED callVars

\* Lines 127-134.
J2X_Catch ==
    /\ prog = "json2xliff" /\ pc = "catch"
    /\ Exit(1, <<Err("during conversion")>>)
    /\ UNCHANGED <<files, now, idx, pending, convVars, consVars>>
    /\ UNCHANGED callVars

\* Lines 124-125 and the normal end of main.
J2X_Report ==
    /\ prog = "json2xliff" /\ pc = "report"
    /\ Exit(0, <<>>)
    /\ UNCHANGED <<files, now, idx, pending, convVars, consVars>>
    /\ UNCHANGED callVars

---------------------------------------------------------------------------
(* xliff-to-json.js                                                        *)

UuidLen == 36
UuidClass == {"a","b","c","d","e","f","0","1","2","3","4","5","6","7","8","9","-"}
NoMatch == [matched |-> FALSE, uuid |-> <<>>, field |-> <<>>]

\* A faulty variant of the pattern of line 231: with the i flag.
UuidMatchIgnoreCase(key) ==
    IF /\ Len(key) > UuidLen + 1
       /\ \A i \in 1..UuidLen :
            key[i] \in UuidClass \cup {"A","B","C","D","E","F"}
       /\ key[UuidLen + 1] = "_"
       /\ SubSeq(key, UuidLen + 2, Len(key)) \in {kTitle, kBody}
    THEN [matched |-> TRUE, uuid |-> SubSeq(key, 1, UuidLen),
          field |-> SubSeq(key, UuidLen + 2, Len(key))]
    ELSE NoMatch

\* key.match(/^([a-f0-9-]{36})_(title|body)$/), line 231.
UuidMatch(key) ==
    IF /\ Len(key) > UuidLen + 1
       /\ \A i \in 1..UuidLen : key[i] \in UuidClass
       /\ key[UuidLen + 1] = "_"
       /\ SubSeq(key, UuidLen + 2, Len(key)) \in {kTitle, kBody}
    THEN [matched |-> TRUE, uuid |-> SubSeq(key, 1, UuidLen),
          field |-> SubSeq(key, UuidLen + 2, Len(key))]
    ELSE NoMatch

\* A faulty variant of lines 240-244: title and body read from each other's
\* key.
GroupRecordSwapped(flat, uuid) ==
    <<Prop(kTitle, OrElse(Get(flat, SynthKey(uuid, kBody)), Str(<<>>))),
      Prop(kBody, OrElse(Get(flat, SynthKey(uuid, kTitle)), Str(<<>>))),
      Prop(kUuid, Str(uuid))>>

\* Lines 240-244: the record pushed for a uuid.
GroupRecord(flat, uuid) ==
    <<Prop(kTitle, OrElse(Get(flat, SynthKey(uuid, kTitle)), Str(<<>>))),
      Prop(kBody, OrElse(Get(flat, SynthKey(uuid, kBody)), Str(<<>>))),
      Prop(kUuid, Str(uuid))>>

\* A faulty variant of lines 254-258: the index counted from one.
FallbackRecordOneBased(key, value, ts, index) ==
    <<Prop(kTitle, Str(key)),
      Prop(kBody, value),
      Prop(kUuid, Str(GeneratedPrefix \o Dec(ts) \o Hyphen \o Dec(index + 1)))>>

\* Lines 254-258: the record pushed for a key in fallback mode.
FallbackRecord(key, value, ts, index) ==
    <<Prop(kTitle, Str(key)),
      Prop(kBody, value),
      Prop(kUuid, Str(GeneratedPrefix \o Dec(ts) \o Hyphen \o Dec(index)))>>

\* A faulty variant of line 252: fallback whenever the mapping is not empty.
UseFallbackAlways(data) == Len(data) >= 0

\* Line 252: the test that selects fallback mode.
UseFallback(data) == Len(data) = 0

X2J_CheckInput ==
    /\ prog = "xliff2json" /\ pc = "start"
    /\ IF xliffIn = NoFile
       THEN Exit(1, <<Err("input file does not exist")>>)
       ELSE Goto("mkdir")
    /\ UNCHANGED <<files, now, idx, pending, convVars, consVars>>
    /\ UNCHANGED callVars

\* Lines 186-189.
X2J_MkDir ==
    /\ prog = "xliff2json" /\ pc = "mkdir"
    /\ files' = files \cup {"outDir"}
    /\ Goto("engine")
    /\ UNCHANGED <<now, idx, pending, convVars, consVars>>
    /\ UNCHANGED callVars

\* Lines 199-210: a stale engine output is removed, then execSync either
\* throws (caught at lines 274-277) or returns with or without its output.
X2J_Engine ==
    /\ prog = "xliff2json" /\ pc = "engine"
    /\ \E outcome \in {"throws", "file", "nofile"} :
         CASE outcome = "throws" ->
                /\ Exit(1, <<Err("CLI Error")>>)
                /\ files' = files \ {"engineJson"}
           [] outcome = "file" ->
                /\ Goto("locate")
                /\ files' = files \cup {"engineJson"}
           [] outcome = "nofile" ->
                /\ Goto("locate")
                /\ files' = files \ {"engineJson"}
    /\ UNCHANGED <<now, idx, pending, convVars, consVars>>
    /\ UNCHANGED callVars

\* Lines 212-227.
X2J_Locate ==
    /\ prog = "xliff2json" /\ pc = "locate"
    /\ IF "engineJson" \notin files
       THEN /\ Exit(1, <<Err("generated JSON file not found")>>)
            /\ UNCHANGED <<flatJsonData, transformedData, processedUuids, idx>>
       ELSE /\ Goto("group")
            /\ flatJsonData' = EngineFromXliff(xliffIn)
            /\ transformedData' = <<>>
            /\ processedUuids' = {}
            /\ idx' = 1
    /\ UNCHANGED <<files, now, pending, jsonIn, jsonData, sourceJson,
                   targetJson, outXliff, xliffIn, outJson, consVars>>
    /\ UNCHANGED callVars

\* A faulty variant of lines 230-249: processedUuids is not consulted.
X2J_GroupKeyEveryKey ==
    /\ prog = "xliff2json" /\ pc = "group"
    /\ idx <= Len(flatJsonData)
    /\ LET uuidMatch == UuidMatch(ObjectKeys(flatJsonData)[idx])
           uuid == uuidMatch.uuid
       IN  IF /\ uuidMatch.matched
              /\ \/ Get(flatJsonData, SynthKey(uuid, kTitle)) # Undefined
                 \/ Get(flatJsonData, SynthKey(uuid, kBody)) # Undefined
           THEN /\ transformedData' =
                      Append(transformedData, GroupRecord(flatJsonData, uuid))
                /\ processedUuids' = processedUuids \cup {uuid}
           ELSE UNCHANGED <<transformedData, processedUuids>>
    /\ idx' = idx + 1
    /\ UNCHANGED <<prog, pc, exitCode, log, files, now, pending, jsonIn, jsonData,
                   sourceJson, targetJson, outXliff, xliffIn, flatJsonData,
                   outJson, consVars>>
    /\ UNCHANGED callVars

\* A faulty variant of lines 230-249: unshift instead of push.
X2J_GroupKeyPrepend ==
    /\ prog = "xliff2json" /\ pc = "group"
    /\ idx <= Len(flatJsonData)
    /\ LET uuidMatch == UuidMatch(ObjectKeys(flatJsonData)[idx])
           uuid == uuidMatch.uuid
       IN  IF /\ uuidMatch.matched
              /\ uuid \notin processedUuids
              /\ \/ Get(flatJsonData, SynthKey(uuid, kTitle)) # Undefined
                 \/ Get(flatJsonData, SynthKey(uuid, kBody)) # Undefined
           THEN /\ transformedData' =
                      <<GroupRecord(flatJsonData, uuid)>> \o transformedData
                /\ processedUuids' = processedUuids \cup {uuid}
           ELSE UNCHANGED <<transformedData, processedUuids>>
    /\ idx' = idx + 1
    /\ UNCHANGED <<prog, pc, exitCode, log, files, now, pending, jsonIn, jsonData,
                   sourceJson, targetJson, outXliff, xliffIn, flatJsonData,
                   outJson, consVars>>
    /\ UNCHANGED callVars

\* Lines 230-249: one iteration of Object.keys(flatJsonData).forEach.
X2J_GroupKey ==
    /\ prog = "xliff2json" /\ pc = "group"
    /\ idx <= Len(flatJsonData)
    /\ LET uuidMatch == UuidMatch(ObjectKeys(flatJsonData)[idx])
           uuid == uuidMatch.uuid
       IN  IF /\ uuidMatch.matched
              /\ uuid \notin processedUuids
              /\ \/ Get(flatJsonData, SynthKey(uuid, kTitle)) # Undefined
                 \/ Get(flatJsonData, SynthKey(uuid, kBody)) # Undefined
           THEN /\ transformedData' =
                      Append(transformedData, GroupRecord(flatJsonData, uuid))
                /\ processedUuids' = processedUuids \cup {uuid}
           ELSE UNCHANGED <<transformedData, processedUuids>>
    /\ idx' = idx + 1
    /\ UNCHANGED <<prog, pc, exitCode, log, files, now, pending, jsonIn, jsonData,
                   sourceJson, targetJson, outXliff, xliffIn, flatJsonData,
                   outJson, consVars>>
    /\ UNCHANGED callVars

\* Line 252.
X2J_FallbackCheck ==
    /\ prog = "xliff2json" /\ pc = "group"
    /\ idx > Len(flatJsonData)
    /\ IF UseFallback(transformedData) THEN Goto("fallback") ELSE Goto("write")
    /\ idx' = 1
    /\ UNCHANGED <<files, now, pending, convVars, consVars>>
    /\ UNCHANGED callVars

\* Lines 253-259: one iteration of the fallback forEach; Date.now() is read
\* in every iteration and never goes back.
X2J_FallbackKey ==
    /\ prog = "xliff2json" /\ pc = "fallback"
    /\ idx <= Len(flatJsonData)
    /\ \E ts \in now..MaxClock :
         /\ now' = ts
         /\ transformedData' =
              Append(transformedData,
                     FallbackRecord(flatJsonData[idx].k, flatJsonData[idx].v,
                                    ts, idx - 1))
    /\ idx' = idx + 1
    /\ UNCHANGED <<prog, pc, exitCode, log, files, pending, jsonIn, jsonData,
                   sourceJson, targetJson, outXliff, xliffIn, flatJsonData,
                   processedUuids, outJson, consVars>>
    /\ UNCHANGED callVars

\* Lines 263-272.
X2J_Write ==
    /\ prog = "xliff2json"
    /\ \/ pc = "write"
       \/ pc = "fallback" /\ idx > Len(flatJsonData)
    /\ outJson' = transformedData
    /\ files' = (files \cup {"outputJson"}) \ {"engineJson"}
    /\ Exit(0, <<>>)
    /\ UNCHANGED <<now, idx, pending, jsonIn, jsonData, sourceJson, targetJson,
                   outXliff, xliffIn, flatJsonData, transformedData,
                   processedUuids, consVars>>
    /\ UNCHANGED callVars

\* The round trip of the README: xliff-to-json.js is run on the document a
\* successful json-to-xliff.js run has written.
RoundTrip ==
    /\ prog = "json2xliff" /\ pc = "exited" /\ exitCode = 0
    /\ prog' = "xliff2json"
    /\ pc' = "start"
    /\ exitCode' = -1
    /\ xliffIn' = outXliff
    /\ UNCHANGED <<log, files, now, idx, pending, jsonIn, jsonData, sourceJson,
                   targetJson, outXliff, flatJsonData, transformedData,
                   processedUuids, outJson, consVars>>
    /\ UNCHANGED callVars

---------------------------------------------------------------------------
(* Inputs of the two conversion scripts.                                   *)

\* {title, body, uuid} in the README's property order; an Undefined value
\* stands for an absent property.
Record(title, body, uuid) ==
    SelectSeq(<<Prop(kTitle, title), Prop(kBody, body), Prop(kUuid, uuid)>>,
              LAMBDA p : p.v.t # "undefined")

tA == Str(<<"A">>)
tB == Str(<<"B">>)
tC == Str(<<"C">>)
tEmpty == Str(<<>>)

RecordPool ==
    { Record(tA, tB, Str(U1)),
      Record(tC, tA, Str(U2)),
      Record(tC, tB, Str(U1)),
      Record(tA, tB, Str(UUpper)),
      Record(tA, tB, Str(UFlat)),
      Record(tA, tB, Str(UShort)),
      Record(Undefined, tB, Str(U1)),
      Record(tA, tEmpty, Str(U2)),
      Record(tA, Undefined, Str(U2)),
      Record(tA, tB, Undefined) }

JsonInputs ==
    {NoFile, InvalidJson, PlainObject, Null}
      \cup {Arr(a) : a \in SeqsUpTo(RecordPool, MaxItems)}

EntryPool ==
    { Prop(SynthKey(U1, kTitle), tA),
      Prop(SynthKey(U1, kBody), tB),
      Prop(SynthKey(U2, kTitle), tEmpty),
      Prop(SynthKey(U2, kBody), tC),
      Prop(SynthKey(UUpper, kTitle), tA),
      Prop(SynthKey(UFlat, kBody), tB),
      Prop(SynthKey(UShort, kTitle), tA),
      Prop(SynthKey(U1, kName), tC),
      Prop(<<"a">> \o SynthKey(U1, kTitle), tA),
      Prop(SynthKey(U1, kTitle) \o <<"s">>, tB),
      Prop(<<"h","i">>, tC) }

FlatMappings ==
    {m \in SeqsUpTo(EntryPool, MaxKeys) : NoDup(ObjectKeys(m))}

XliffInputs ==
    {NoFile} \cup {EngineToXliff(m, m) : m \in FlatMappings}

---------------------------------------------------------------------------
(* json-consolidation-to-xliff.js                                          *)

RECURSIVE ReplaceAll(_, _, _)
\* text.replace(/ch/g, rep)
ReplaceAll(s, ch, rep) ==
    IF s = <<>> THEN <<>>
    ELSE (IF Head(s) = ch THEN rep ELSE <<Head(s)>>)
           \o ReplaceAll(Tail(s), ch, rep)

Amp == <<"&","a","m","p",";">>
Lt == <<"&","l","t",";">>
Gt == <<"&","g","t",";">>
Quot == <<"&","q","u","o","t",";">>
Apos == <<"&","a","p","o","s",";">>

\* A faulty variant of lines 27-35: the ampersand is replaced last.
escapeXmlAmpLast(text) ==
    IF ~Truthy(text) THEN <<>>
    ELSE ReplaceAll(ReplaceAll(ReplaceAll(ReplaceAll(ReplaceAll(
             text.s, "<", Lt), ">", Gt), "\"", Quot), "'", Apos), "&", Amp)

\* Lines 28-29: a falsy text is answered at once; any other text must have
\* a replace method, which only a string has: text.replace(...) on another
\* value raises a TypeError.
EscapeThrows(text) == Truthy(text) /\ text.t # "string"

Thrown == [t |-> "thrown"]

\* Lines 27-35.
escapeXml(text) ==
    IF ~Truthy(text) THEN <<>>
    ELSE ReplaceAll(ReplaceAll(ReplaceAll(ReplaceAll(ReplaceAll(
             text.s, "&", Amp), "<", Lt), ">", Gt), "\"", Quot), "'", Apos)

\* escapeXml(text) called on its own.
Esc_Call ==
    /\ prog = "escapeXml" /\ pc = "start"
    /\ callResult' = IF EscapeThrows(callText) THEN Thrown
                     ELSE Str(escapeXml(callText))
    /\ pc' = "returned"
    /\ UNCHANGED <<prog, exitCode, log, files, now, idx, pending,
                   convVars, consVars, callText>>

WhiteSpace == {" ", "\t", "\n", "\r"}

RECURSIVE TrimLeft(_)
TrimLeft(s) ==
    IF s # <<>> /\ Head(s) \in WhiteSpace THEN TrimLeft(Tail(s)) ELSE s

RECURSIVE TrimRight(_)
TrimRight(s) ==
    IF s # <<>> /\ s[Len(s)] \in WhiteSpace
    THEN TrimRight(SubSeq(s, 1, Len(s) - 1))
    ELSE s

\* String.prototype.trim
Trim(s) == TrimRight(TrimLeft(s))

RECURSIVE TargetMapFirstWins(_, _)
\* A faulty variant of lines 39-44: the first target of a uuid is kept.
TargetMapFirstWins(map, items) ==
    IF items = <<>> THEN map
    ELSE TargetMapFirstWins(
           IF /\ Truthy(Get(Head(items), kUuid))
              /\ ~HasKey(map, Get(Head(items), kUuid))
           THEN Put(map, Get(Head(items), kUuid), Head(items))
           ELSE map,
           Tail(items))

RECURSIVE TargetMapFrom(_, _)
\* Lines 39-44: targetData.forEach over a Map keyed by uuid.
TargetMapFrom(map, items) ==
    IF items = <<>> THEN map
    ELSE TargetMapFrom(
           IF Truthy(Get(Head(items), kUuid))
           THEN Put(map, Get(Head(items), kUuid), Head(items))
           ELSE map,
           Tail(items))

\* A faulty variant of line 50: the first item, whether it has a uuid or not.
FirstSourceIndexAny(items) == IF Len(items) > 0 THEN 1 ELSE 0

\* Line 50: the index of sourceData.find(item => item.uuid), or 0.
FirstSourceIndex(items) ==
    IF \E i \in 1..Len(items) : Truthy(Get(items[i], kUuid))
    THEN CHOOSE i \in 1..Len(items) :
           /\ Truthy(Get(items[i], kUuid))
           /\ \A j \in 1..(i - 1) : ~Truthy(Get(items[j], kUuid))
    ELSE 0

\* A faulty variant of lines 55-59: the value is not trimmed.
IsTranslatableNoTrim(item, key) ==
    /\ key # kUuid
    /\ Get(item, key).t = "string"
    /\ Get(item, key).s # <<>>

\* The filter of lines 55-59.
IsTranslatable(item, key) ==
    /\ key # kUuid
    /\ Get(item, key).t = "string"
    /\ Trim(Get(item, key).s) # <<>>

\* Lines 55-59.
DetectFields(item) ==
    SelectSeq(ObjectKeys(item), LAMBDA key : IsTranslatable(item, key))

\* A faulty variant of line 80: nothing is skipped.
SkipSourceTextNever(sourceText) == FALSE

\* The condition of line 80.
SkipSourceText(sourceText) ==
    \/ ~Truthy(sourceText)
    \/ sourceText.t # "string"
    \/ Trim(sourceText.s) = <<>>

ForUuid == <<" ","f","o","r"," ","U","U","I","D",":"," ">>

\* A faulty variant of lines 84-91: the id is the uuid alone.
TransUnitIdFromUuid(sourceItem, targetItem, fieldName) ==
    [id |-> escapeXml(Get(sourceItem, kUuid)),
     source |-> escapeXml(Get(sourceItem, fieldName)),
     target |-> escapeXml(OrElse(Get(targetItem, fieldName), Str(<<>>))),
     note |-> escapeXml(Str(fieldName)) \o ForUuid
                \o escapeXml(Get(sourceItem, kUuid))]

\* Lines 84-91: the trans-unit element, as the four texts written into it.
TransUnit(sourceItem, targetItem, fieldName) ==
    [id |-> escapeXml(Str(SynthKey(TemplateStr(Get(sourceItem, kUuid)),
                                   fieldName))),
     source |-> escapeXml(Get(sourceItem, fieldName)),
     target |-> escapeXml(OrElse(Get(targetItem, fieldName), Str(<<>>))),
     note |-> escapeXml(Str(fieldName)) \o ForUuid
                \o escapeXml(Get(sourceItem, kUuid))]

\* Lines 75-93: translatableFields.forEach for one matched source item.
UnitsFor(sourceItem, targetItem, fields) ==
    LET upTo[n \in 0..Len(fields)] ==
          IF n = 0 THEN <<>>
          ELSE upTo[n - 1]
                 \o (IF SkipSourceText(Get(sourceItem, fields[n]))
                     THEN <<>>
                     ELSE <<TransUnit(sourceItem, targetItem, fields[n])>>)
    IN  upTo[Len(fields)]

\* Lines 96-107: the document, as its language attributes and its units.
XliffDocument(units, sourceLang, targetLang) ==
    [t |-> "xliff12", sourceLang |-> sourceLang, targetLang |-> targetLang,
     units |-> units]

\* Lines 122-130.
Cons_CheckFiles ==
    /\ prog = "consolidate" /\ pc = "start"
    /\ IF sourceFile = NoFile
       THEN Exit(1, <<Err("source file does not exist")>>)
       ELSE IF targetFile = NoFile
            THEN Exit(1, <<Err("target file does not exist")>>)
            ELSE Goto("read")
    /\ UNCHANGED <<files, now, idx, pending, convVars, consVars>>
    /\ UNCHANGED callVars

\* Lines 137-138; a SyntaxError goes to the catch of lines 171-179.
Cons_Read ==
    /\ prog = "consolidate" /\ pc = "read"
    /\ IF sourceFile = InvalidJson \/ targetFile = InvalidJson
       THEN /\ Exit(1, <<Err("during consolidation")>>)
            /\ UNCHANGED <<sourceData, targetData>>
       ELSE /\ Goto("validate")
            /\ sourceData' = sourceFile
            /\ targetData' = targetFile
    /\ UNCHANGED <<files, now, idx, pending, convVars, sourceFile, targetFile,
                   targetMap, translatableFields, transUnits, unitCount,
                   outConsolidated>>
    /\ UNCHANGED callVars

\* Lines 141-149.
Cons_Validate ==
    /\ prog = "consolidate" /\ pc = "validate"
    /\ IF ~IsArray(sourceData)
       THEN Exit(1, <<Err("source JSON file must contain an array")>>)
       ELSE IF ~IsArray(targetData)
            THEN Exit(1, <<Err("target JSON file must contain an array")>>)
            ELSE Goto("generate")
    /\ UNCHANGED <<files, now, idx, pending, convVars, consVars>>
    /\ UNCHANGED callVars

\* Lines 39-47 of generateXliffContent.
Cons_BuildTargetMap ==
    /\ prog = "consolidate" /\ pc = "generate"
    /\ targetMap' = TargetMapFrom(<<>>, targetData.a)
    /\ transUnits' = <<>>
    /\ unitCount' = 0
    /\ Goto("fields")
    /\ UNCHANGED <<files, now, idx, pending, convVars, sourceFile, targetFile,
                   sourceData, targetData, translatableFields,
                   outConsolidated>>
    /\ UNCHANGED callVars

\* Lines 50-61; the Error of line 52 is caught at lines 171-179.
Cons_DetectFields ==
    /\ prog = "consolidate" /\ pc = "fields"
    /\ IF FirstSourceIndex(sourceData.a) = 0
       THEN /\ Exit(1, <<Err("during consolidation")>>)
            /\ UNCHANGED <<translatableFields, idx>>
       ELSE /\ Goto("units")
            /\ translatableFields' =
                 DetectFields(sourceData.a[FirstSourceIndex(sourceData.a)])
            /\ idx' = 1
    /\ UNCHANGED <<files, now, pending, convVars, sourceFile, targetFile,
                   sourceData, targetData, targetMap, transUnits, unitCount,
                   outConsolidated>>
    /\ UNCHANGED callVars

\* Lines 64-66: a source item without uuid is passed over.
SkipNoUuid ==
    /\ idx' = idx + 1
    /\ UNCHANGED <<prog, pc, exitCode, log, transUnits, unitCount>>

\* A faulty variant of lines 69-72: a missing target ends the run.
OnMissingTargetAbort(uuid) ==
    /\ Exit(1, <<Err("no target translation found")>>)
    /\ UNCHANGED <<idx, transUnits, unitCount>>

\* Lines 69-72: no target for this uuid: a warning, and on to the next item.
OnMissingTarget(uuid) ==
    /\ log' = Append(log, Warn("no target translation found",
                                TemplateStr(uuid)))
    /\ idx' = idx + 1
    /\ UNCHANGED <<prog, pc, exitCode, transUnits, unitCount>>

\* Lines 84-91: some escapeXml call made for a unit of this item raises.
\* unitId, sourceText and fieldName are strings; targetText || '' and
\* sourceItem.uuid need not be.
UnitThrows(sourceItem, targetItem, fields) ==
    \E i \in 1..Len(fields) :
      /\ ~SkipSourceText(Get(sourceItem, fields[i]))
      /\ \/ EscapeThrows(OrElse(Get(targetItem, fields[i]), Str(<<>>)))
         \/ EscapeThrows(Get(sourceItem, kUuid))

\* The TypeError leaves generateXliffContent and is caught at lines 171-179.
OnUnitThrows ==
    /\ Exit(1, <<Err("during consolidation")>>)
    /\ UNCHANGED <<idx, transUnits, unitCount>>

\* Lines 75-93: the units of a matched source item are appended.
EmitUnits(sourceItem, targetItem) ==
    LET units == UnitsFor(sourceItem, targetItem, translatableFields)
    IN  /\ transUnits' = transUnits \o units
        /\ unitCount' = unitCount + Len(units)
        /\ idx' = idx + 1
        /\ UNCHANGED <<prog, pc, exitCode, log>>

\* Lines 63-94: one iteration of sourceData.forEach.
Cons_SourceItem ==
    /\ prog = "consolidate" /\ pc = "units"
    /\ idx <= Len(sourceData.a)
    /\ LET sourceItem == sourceData.a[idx]
           uuid == Get(sourceItem, kUuid)
       IN  IF ~Truthy(uuid)
           THEN SkipNoUuid
           ELSE IF ~HasKey(targetMap, uuid)
                THEN OnMissingTarget(uuid)
                ELSE IF UnitThrows(sourceItem, Get(targetMap, uuid),
                                   translatableFields)
                     THEN OnUnitThrows
                     ELSE EmitUnits(sourceItem, Get(targetMap, uuid))
    /\ UNCHANGED <<files, now, pending, convVars,
                   sourceFile, targetFile, sourceData, targetData, targetMap,
                   translatableFields, outConsolidated>>
    /\ UNCHANGED callVars

\* Lines 96-107 and 155-169: the document is built, the output directory
\* made and the file written.
Cons_Write ==
    /\ prog = "consolidate" /\ pc = "units"
    /\ idx > Len(sourceData.a)
    /\ outConsolidated' = XliffDocument(transUnits, "en", "ko")
    /\ files' = files \cup {"outDir", "outputXliff"}
    /\ Exit(0, <<>>)
    /\ UNCHANGED <<now, idx, pending, convVars, sourceFile, targetFile,
                   sourceData, targetData, targetMap, translatableFields,
                   transUnits, unitCount>>
    /\ UNCHANGED callVars

---------------------------------------------------------------------------
(* Inputs of the consolidation script.                                     *)

idX == Str(<<"X">>)
idY == Str(<<"Y">>)
idZ == Str(<<"Z">>)
tBlank == Str(<<" ">>)
tMarkup == Str(<<"<","&",">">>)
tQuotes == Str(<<"\"","'">>)
tT == Str(<<"T">>)
tU == Str(<<"U">>)

SourcePool ==
    { Record(tA, tB, idX),
      Record(tC, tEmpty, idY),
      Record(tBlank, tEmpty, idY),
      Record(tMarkup, Undefined, idZ),
      Record(tA, tB, Undefined),
      <<Prop(kUuid, idX), Prop(kBody, tB), Prop(kTitle, tEmpty)>> }

TargetPool ==
    { Record(tT, tU, idX),
      Record(tQuotes, Undefined, idX),
      Record(tT, tU, idY),
      Record(tMarkup, tEmpty, idZ),
      Record(tT, tU, Undefined) }

SourceInputs ==
    {NoFile, InvalidJson, PlainObject}
      \cup {Arr(a) : a \in SeqsUpTo(SourcePool, MaxItems)}

TargetInputs ==
    {NoFile, InvalidJson, PlainObject}
      \cup {Arr(a) : a \in SeqsUpTo(TargetPool, MaxItems)}

\* Records with other field names, and identifiers that contain "_".
fA == <<"a">>
fBA == <<"b","_","a">>
idXB == Str(<<"X","_","b">>)

NamedSourcePool ==
    { <<Prop(kUuid, idXB), Prop(fA, tA), Prop(fBA, tB)>>,
      <<Prop(kUuid, idXB), Prop(fA, tA)>>,
      <<Prop(kUuid, idX), Prop(fA, tC), Prop(fBA, tA)>>,
      <<Prop(fA, tC), Prop(kUuid, idY)>>,
      <<Prop(fA, tA), Prop(fBA, tB)>> }

NamedTargetPool ==
    { <<Prop(kUuid, idXB), Prop(fA, tT), Prop(fBA, tU)>>,
      <<Prop(kUuid, idX), Prop(fA, tT), Prop(fBA, tU)>>,
      <<Prop(kUuid, idY), Prop(fA, tU)>> }

NamedSourceInputs == {Arr(a) : a \in SeqsUpTo(NamedSourcePool, MaxItems)}

NamedTargetInputs == {Arr(a) : a \in SeqsUpTo(NamedTargetPool, MaxItems)}

\* Records whose identifier or field values are numbers.
TypedSourcePool ==
    { Record(tA, tB, idX),
      <<Prop(kUuid, Num(5)), Prop(kTitle, tA)>>,
      <<Prop(kUuid, idY), Prop(kTitle, Num(7)), Prop(kBody, tB)>> }

TypedTargetPool ==
    { Record(tT, tU, idX),
      <<Prop(kUuid, idX), Prop(kTitle, tT), Prop(kBody, Num(5))>>,
      <<Prop(kUuid, idX), Prop(kTitle, Num(0)), Prop(kBody, tU)>>,
      <<Prop(kUuid, Num(5)), Prop(kTitle, tT)>>,
      <<Prop(kUuid, idY), Prop(kTitle, tT), Prop(kBody, tU)>> }

TypedSourceInputs == {Arr(a) : a \in SeqsUpTo(TypedSourcePool, MaxItems)}

TypedTargetInputs == {Arr(a) : a \in SeqsUpTo(TypedTargetPool, MaxItems)}

InitProc ==
    /\ pc = "start"
    /\ exitCode = -1
    /\ log = <<>>
    /\ files = {}
    /\ now = 0
    /\ idx = 1
    /\ pending = "none"

InitCallIdle ==
    /\ callText = Undefined
    /\ callResult = Undefined

InitConvIdle ==
    /\ jsonData = Undefined
    /\ sourceJson = <<>>
    /\ targetJson = <<>>
    /\ outXliff = NoFile
    /\ flatJsonData = <<>>
    /\ transformedData = <<>>
    /\ processedUuids = {}
    /\ outJson = NoFile

InitConsIdle ==
    /\ sourceFile = NoFile
    /\ targetFile = NoFile
    /\ sourceData = Undefined
    /\ targetData = Undefined
    /\ targetMap = <<>>
    /\ translatableFields = <<>>
    /\ transUnits = <<>>
    /\ unitCount = 0
    /\ outConsolidated = NoFile

InitConv ==
    /\ InitProc
    /\ InitCallIdle
    /\ InitConvIdle
    /\ InitConsIdle
    /\ \/ prog = "json2xliff" /\ jsonIn \in JsonInputs /\ xliffIn = NoFile
       \/ prog = "xliff2json" /\ xliffIn \in XliffInputs /\ jsonIn = NoFile

InitCons ==
    /\ InitProc
    /\ InitCallIdle
    /\ InitConvIdle
    /\ jsonIn = NoFile
    /\ xliffIn = NoFile
    /\ prog = "consolidate"
    /\ sourceFile \in SourceInputs
    /\ targetFile \in TargetInputs
    /\ sourceData = Undefined
    /\ targetData = Undefined
    /\ targetMap = <<>>
    /\ translatableFields = <<>>
    /\ transUnits = <<>>
    /\ unitCount = 0
    /\ outConsolidated = NoFile

\* The consolidation script started on a source file and a target file
\* from the given sets.
InitConsFrom(sources, targets) ==
    /\ InitProc
    /\ InitCallIdle
    /\ InitConvIdle
    /\ jsonIn = NoFile
    /\ xliffIn = NoFile
    /\ prog = "consolidate"
    /\ sourceFile \in sources
    /\ targetFile \in targets
    /\ sourceData = Undefined
    /\ targetData = Undefined
    /\ targetMap = <<>>
    /\ translatableFields = <<>>
    /\ transUnits = <<>>
    /\ unitCount = 0
    /\ outConsolidated = NoFile

InitConsNamed == InitConsFrom(NamedSourceInputs, NamedTargetInputs)

\* Texts handed to escapeXml.
EscapeAlphabet == {"&", "<", ">", "\"", "'", "a", ";"}
tSample == Str(<<"a"," ","&"," ","b"," ","<"," ","c">>)

EscapeInputs ==
    {Undefined, tSample, Num(0), Num(5)}
      \cup {Str(t) : t \in SeqsUpTo(EscapeAlphabet, MaxText)}

InitEscape ==
    /\ InitProc
    /\ InitConvIdle
    /\ InitConsIdle
    /\ jsonIn = NoFile
    /\ xliffIn = NoFile
    /\ prog = "escapeXml"
    /\ callText \in EscapeInputs
    /\ callResult = Undefined

InitConsTyped == InitConsFrom(TypedSourceInputs, TypedTargetInputs)

Init == InitConv \/ InitCons

NextConv ==
    \/ J2X_CheckInput
    \/ J2X_Read
    \/ J2X_Validate
    \/ J2X_FlattenItem
    \/ J2X_WriteTemp
    \/ J2X_Engine
    \/ J2X_Locate
    \/ J2X_Cleanup
    \/ J2X_Catch
    \/ J2X_Report
    \/ RoundTrip
    \/ X2J_CheckInput
    \/ X2J_MkDir
    \/ X2J_Engine
    \/ X2J_Locate
    \/ X2J_GroupKey
    \/ X2J_FallbackCheck
    \/ X2J_FallbackKey
    \/ X2J_Write

NextCons ==
    \/ Cons_CheckFiles
    \/ Cons_Read
    \/ Cons_Validate
    \/ Cons_BuildTargetMap
    \/ Cons_DetectFields
    \/ Cons_SourceItem
    \/ Cons_Write

Next == NextConv \/ NextCons

\* The two conversion scripts.
SpecConv == InitConv /\ [][NextConv]_vars

\* The consolidation script.
SpecCons == InitCons /\ [][NextCons]_vars

\* The scripts that synthesize keys: json-to-xliff.js on its inputs and the
\* consolidation script on records with arbitrary field names.
SpecKeys == (InitConv \/ InitConsNamed) /\ [][Next]_vars

NextEscape == Esc_Call

\* escapeXml on its own.
SpecEscape == InitEscape /\ [][NextEscape]_vars

\* The consolidation script on records with values of any type.
SpecConsTyped == InitConsTyped /\ [][NextCons]_vars

\* All three scripts.
Spec == Init /\ [][Next]_vars

---------------------------------------------------------------------------
(* Properties: helpers.                                                    *)

\* The (uuid, title, body) triples of a record array, in array order.
TriplesOf(records) ==
    [i \in 1..Len(records) |->
       <<Get(records[i], kUuid), Get(records[i], kTitle),
         Get(records[i], kBody)>>]

HasAllFields(rec) ==
    HasKey(rec, kUuid) /\ HasKey(rec, kTitle) /\ HasKey(rec, kBody)

NonEmptyText(v) == v.t = "string" /\ Len(v.s) > 0

HexLower == {"0","1","2","3","4","5","6","7","8","9","a","b","c","d","e","f"}
HexAnyCase == HexLower \cup {"A","B","C","D","E","F"}

\* An identifier of 36 characters, each a lower-case hex digit or a hyphen.
LooseId(u) ==
    /\ Len(u) = UuidLen
    /\ \A i \in 1..UuidLen : u[i] \in HexLower \cup {"-"}

\* An identifier of the canonical 8-4-4-4-12 shape, hex in either case.
CanonicalId(u) ==
    /\ Len(u) = UuidLen
    /\ \A i \in 1..UuidLen :
         IF i \in {9, 14, 19, 24} THEN u[i] = "-" ELSE u[i] \in HexAnyCase

\* The identifier part and the field part of a key <identifier>_<field>
\* with field in {title, body}; IdOfKey is <<>> when the key has no such
\* form.
FieldOfKey(key) ==
    IF Len(key) > Len(kTitle)
         /\ SubSeq(key, Len(key) - Len(kTitle), Len(key)) = Underscore \o kTitle
    THEN kTitle
    ELSE IF Len(key) > Len(kBody)
              /\ SubSeq(key, Len(key) - Len(kBody), Len(key)) = Underscore \o kBody
         THEN kBody
         ELSE <<>>

IdOfKey(key) ==
    IF FieldOfKey(key) = <<>> THEN <<>>
    ELSE SubSeq(key, 1, Len(key) - Len(FieldOfKey(key)) - 1)

AnyKeyMatches(flat) ==
    \E i \in 1..Len(flat) : UuidMatch(flat[i].k).matched

Entries(m) == {<<m[i].k, m[i].v>> : i \in 1..Len(m)}

StartsWith(s, prefix) ==
    Len(s) >= Len(prefix) /\ SubSeq(s, 1, Len(prefix)) = prefix

---------------------------------------------------------------------------
(* C1: round trip.                                                         *)

RoundTripDone ==
    /\ prog = "xliff2json" /\ pc = "exited" /\ exitCode = 0
    /\ IsArray(jsonIn)

\* C1 as stated: for every array whose records each have a uuid, a title
\* and a body, flattening it and reconstructing the source mapping (the
\* engine preserving it) gives back exactly the input's (uuid, title, body)
\* triples, in order.
C1_RoundTripAnyRecords ==
    (RoundTripDone /\ \A i \in 1..Len(jsonIn.a) : HasAllFields(jsonIn.a[i]))
      => TriplesOf(outJson) = TriplesOf(jsonIn.a)

RoundTripDomain(records) ==
    /\ \A i \in 1..Len(records) :
         /\ Get(records[i], kUuid).t = "string"
         /\ LooseId(Get(records[i], kUuid).s)
         /\ NonEmptyText(Get(records[i], kTitle))
         /\ NonEmptyText(Get(records[i], kBody))
    /\ \A i, j \in 1..Len(records) :
         i # j => Get(records[i], kUuid) # Get(records[j], kUuid)

\* C1, amended: for every array whose records have pairwise distinct
\* identifiers of exactly 36 characters from a-f, 0-9 and "-", and a
\* non-empty title and body, flattening it and reconstructing the source
\* mapping (the engine preserving it) gives back exactly the input's
\* (uuid, title, body) triples, in input order.
C1_RoundTrip ==
    (RoundTripDone /\ RoundTripDomain(jsonIn.a))
      => TriplesOf(outJson) = TriplesOf(jsonIn.a)

C1_Witness ==
    /\ RoundTripDone
    /\ RoundTripDomain(jsonIn.a)
    /\ Len(jsonIn.a) = 2
    /\ Len(outJson) = 2

---------------------------------------------------------------------------
(* C7: fallback mode.                                                      *)

ReconstructDone == prog = "xliff2json" /\ pc = "exited" /\ exitCode = 0

IsGeneratedUuid(v, index) ==
    \E ts \in 0..MaxClock :
      v = Str(GeneratedPrefix \o Dec(ts) \o Hyphen \o Dec(index))

\* C7: when no key of the flat mapping matches the UUID key pattern, the
\* output has exactly one record per key, in key order, with title = the
\* key, body = the key's value and uuid = generated-<timestamp>-<index of
\* the key, from 0>.
C7_Fallback ==
    (ReconstructDone /\ ~AnyKeyMatches(flatJsonData))
      => /\ Len(outJson) = Len(flatJsonData)
         /\ \A i \in 1..Len(flatJsonData) :
              /\ ObjectKeys(outJson[i]) = <<kTitle, kBody, kUuid>>
              /\ Get(outJson[i], kTitle) = Str(flatJsonData[i].k)
              /\ Get(outJson[i], kBody) = flatJsonData[i].v
              /\ IsGeneratedUuid(Get(outJson[i], kUuid), i - 1)

C7_Witness ==
    /\ ReconstructDone
    /\ ~AnyKeyMatches(flatJsonData)
    /\ Len(flatJsonData) >= 2
    /\ Len(outJson) = Len(flatJsonData)

---------------------------------------------------------------------------
(* C8: all or nothing.                                                     *)

IsFallbackRecord(rec) == StartsWith(Get(rec, kUuid).s, GeneratedPrefix)

\* rec is the record of the identifier of some matching key of flat.
BuiltFromMatchingKey(rec, flat) ==
    \E i \in 1..Len(flat) :
      /\ UuidMatch(flat[i].k).matched
      /\ LET u == UuidMatch(flat[i].k).uuid
             title == Get(flat, u \o Underscore \o kTitle)
             body == Get(flat, u \o Underscore \o kBody)
         IN  /\ Get(rec, kUuid) = Str(u)
             /\ Get(rec, kTitle) = IF NonEmptyText(title) THEN title ELSE Str(<<>>)
             /\ Get(rec, kBody) = IF NonEmptyText(body) THEN body ELSE Str(<<>>)

\* C8: at every point of a reconstruction, and in the file it writes: if
\* some key matches the UUID key pattern, every output record is built from
\* a matching key and no record carries a non-matching key as its title; a
\* fallback record exists only if no key matched; the two kinds never mix.
C8_AllOrNothing ==
    (prog = "xliff2json" /\ pc \in {"group", "fallback", "write", "exited"})
      => /\ AnyKeyMatches(flatJsonData) =>
              /\ \A r \in Range(transformedData) :
                   BuiltFromMatchingKey(r, flatJsonData)
              /\ \A i \in 1..Len(flatJsonData) :
                   ~UuidMatch(flatJsonData[i].k).matched =>
                     \A r \in Range(transformedData) :
                       Get(r, kTitle) # Str(flatJsonData[i].k)
         /\ (\E r \in Range(transformedData) : IsFallbackRecord(r))
              => ~AnyKeyMatches(flatJsonData)
         /\ \A r1, r2 \in Range(transformedData) :
              IsFallbackRecord(r1) = IsFallbackRecord(r2)
         /\ ReconstructDone => outJson = transformedData

C8_Witness ==
    /\ ReconstructDone
    /\ AnyKeyMatches(flatJsonData)
    /\ \E i \in 1..Len(flatJsonData) : ~UuidMatch(flatJsonData[i].k).matched
    /\ Len(flatJsonData) = 3
    /\ Len(outJson) = 1

---------------------------------------------------------------------------
(* C9: the key pattern.                                                    *)

IdHasShape(shape, u) ==
    IF shape = "canonical" THEN CanonicalId(u) ELSE LooseId(u)

\* One iteration of the grouping loop treats its key as a key of the given
\* shape: the identifier of a key of that shape is marked processed, with a
\* record pushed for it unless it was processed before; any other key
\* changes nothing.
GroupStepTreats(shape) ==
    (prog = "xliff2json" /\ pc = "group" /\ idx <= Len(flatJsonData)
       /\ idx' = idx + 1)
      => LET key == flatJsonData[idx].k
             u == IdOfKey(key)
         IN  IF FieldOfKey(key) # <<>> /\ IdHasShape(shape, u)
             THEN /\ u \in processedUuids'
                  /\ u \notin processedUuids =>
                       /\ Len(transformedData') = Len(transformedData) + 1
                       /\ Get(transformedData'[Len(transformedData')], kUuid)
                            = Str(u)
             ELSE /\ transformedData' = transformedData
                  /\ processedUuids' = processedUuids

\* C9 as stated: a key is treated as matching if and only if it is
\* <identifier>_<title|body> with the identifier of the canonical
\* 8-4-4-4-12 UUID shape, hex digits in either case.
C9_CanonicalCaseInsensitive == [][GroupStepTreats("canonical")]_vars

\* C9, amended: a key is treated as matching if and only if it is
\* <identifier>_<title|body> with the identifier exactly 36 characters,
\* each one of a-f (lower case only), 0-9 or "-", in any arrangement.
C9_KeyPattern == [][GroupStepTreats("loose")]_vars

C9_Witness ==
    /\ ReconstructDone
    /\ HasKey(flatJsonData, UUpper \o Underscore \o kTitle)
    /\ HasKey(flatJsonData, UFlat \o Underscore \o kBody)
    /\ processedUuids = {UFlat}

---------------------------------------------------------------------------
(* C10: the flattener's mappings.                                          *)

FlattenDone ==
    /\ prog = "json2xliff" /\ IsArray(jsonData)
    /\ pc \notin {"start", "read", "validate", "flatten"}

EntriesOf(rec) ==
    LET u == Get(rec, kUuid).s
    IN  { <<u \o Underscore \o kTitle, Get(rec, kTitle)>>,
          <<u \o Underscore \o kBody, Get(rec, kBody)>> }

TargetIsEmptyCopy ==
    /\ ObjectKeys(targetJson) = ObjectKeys(sourceJson)
    /\ \A i \in 1..Len(targetJson) : targetJson[i].v = Str(<<>>)

\* The flattening loop ends without an error line and without exiting.
FlattenRaisesNothing ==
    (prog = "json2xliff" /\ pc = "engine") => log = <<>> /\ exitCode = -1

\* C10 as stated: the source mapping holds exactly uuid_title -> title and
\* uuid_body -> body for each record that has uuid, title and body, the
\* target mapping has the same keys with empty values, and a record missing
\* one of the fields adds nothing and raises no error.
C10_EveryCarryingRecord ==
    /\ FlattenDone =>
         /\ Entries(sourceJson) =
              UNION {EntriesOf(jsonData.a[i]) :
                       i \in {j \in 1..Len(jsonData.a) :
                                HasAllFields(jsonData.a[j])}}
         /\ TargetIsEmptyCopy
    /\ FlattenRaisesNothing

Carries(rec) ==
    /\ NonEmptyText(Get(rec, kUuid))
    /\ NonEmptyText(Get(rec, kTitle))
    /\ NonEmptyText(Get(rec, kBody))

LastWithItsUuid(records, i) ==
    \A j \in (i + 1)..Len(records) :
      Carries(records[j]) => Get(records[j], kUuid) # Get(records[i], kUuid)

\* C10, amended: the source mapping holds exactly uuid_title -> title and
\* uuid_body -> body for each record whose uuid, title and body are all
\* non-empty and that is the last such record with its uuid (a later record
\* with the same uuid replaces the earlier one's values); the target
\* mapping has the same keys with empty values; any other record adds
\* nothing and raises no error.
C10_FlattenerMapping ==
    /\ FlattenDone =>
         /\ Entries(sourceJson) =
              UNION {EntriesOf(jsonData.a[i]) :
                       i \in {j \in 1..Len(jsonData.a) :
                                /\ Carries(jsonData.a[j])
                                /\ LastWithItsUuid(jsonData.a, j)}}
         /\ TargetIsEmptyCopy
    /\ FlattenRaisesNothing

C10_Witness ==
    /\ prog = "json2xliff" /\ pc = "engine"
    /\ Len(jsonData.a) = 2
    /\ Carries(jsonData.a[1])
    /\ ~HasKey(jsonData.a[2], kTitle)
    /\ Len(sourceJson) = 2

---------------------------------------------------------------------------
(* Properties of the consolidation script: helpers.                        *)

RECURSIVE XmlDecode(_)
\* The text an XML reader gets from escaped character data.
XmlDecode(s) ==
    IF s = <<>> THEN <<>>
    ELSE IF StartsWith(s, Amp)
         THEN <<"&">> \o XmlDecode(SubSeq(s, Len(Amp) + 1, Len(s)))
    ELSE IF StartsWith(s, Lt)
         THEN <<"<">> \o XmlDecode(SubSeq(s, Len(Lt) + 1, Len(s)))
    ELSE IF StartsWith(s, Gt)
         THEN <<">">> \o XmlDecode(SubSeq(s, Len(Gt) + 1, Len(s)))
    ELSE IF StartsWith(s, Quot)
         THEN <<"\"">> \o XmlDecode(SubSeq(s, Len(Quot) + 1, Len(s)))
    ELSE IF StartsWith(s, Apos)
         THEN <<"'">> \o XmlDecode(SubSeq(s, Len(Apos) + 1, Len(s)))
    ELSE <<Head(s)>> \o XmlDecode(Tail(s))

DecodedUnit(u) ==
    [id |-> XmlDecode(u.id), source |-> XmlDecode(u.source),
     target |-> XmlDecode(u.target), note |-> XmlDecode(u.note)]

NonBlankText(v) ==
    v.t = "string" /\ \E i \in 1..Len(v.s) : v.s[i] \notin WhiteSpace

ConsDone == prog = "consolidate" /\ pc = "exited" /\ exitCode = 0

HasIdentifier(rec) == NonEmptyText(Get(rec, kUuid))

InTarget(uuid) ==
    \E j \in 1..Len(targetData.a) : Get(targetData.a[j], kUuid) = uuid

\* The last target record carrying uuid.
LastTarget(uuid) ==
    targetData.a[CHOOSE j \in 1..Len(targetData.a) :
                   /\ Get(targetData.a[j], kUuid) = uuid
                   /\ \A k \in (j + 1)..Len(targetData.a) :
                        Get(targetData.a[k], kUuid) # uuid]

\* The unit the claims describe for source record i and field f.
ClaimedUnit(i, f) ==
    LET rec == sourceData.a[i]
        id == Get(rec, kUuid).s
        target == Get(LastTarget(Get(rec, kUuid)), f)
    IN  [id |-> id \o Underscore \o f,
         source |-> Get(rec, f).s,
         target |-> IF target.t = "string" THEN target.s ELSE <<>>,
         note |-> f \o ForUuid \o id]

\* Pairs <<i, k>>: source record i, k-th translatable field.
PairBefore(p, q) == p[1] < q[1] \/ (p[1] = q[1] /\ p[2] < q[2])

\* The units of the written document are exactly the claimed units of the
\* pairs in P, in the order of the pairs.
UnitsAreExactly(P) ==
    /\ Len(outConsolidated.units) = Cardinality(P)
    /\ \A p \in P :
         DecodedUnit(outConsolidated.units[
             Cardinality({q \in P : PairBefore(q, p)}) + 1])
           = ClaimedUnit(p[1], translatableFields[p[2]])

MatchedPairs ==
    {p \in (1..Len(sourceData.a)) \X (1..Len(translatableFields)) :
       /\ HasIdentifier(sourceData.a[p[1]])
       /\ InTarget(Get(sourceData.a[p[1]], kUuid))}

---------------------------------------------------------------------------
(* C2: the units of the consolidated document.                             *)

---------------------------------------------------------------------------
(* C3: a source record without target.                                     *)

MissingTarget(rec) ==
    HasIdentifier(rec) /\ ~InTarget(Get(rec, kUuid))

WarnLines == SelectSeq(log, LAMBDA l : l.level = "warn")

\* What a finished run with an identified source record and an array target
\* looks like: exit code 0 and the document written; no unit for a source
\* record whose identifier is in no target record and one warning per such
\* record (in order, naming the identifier); every other identified record
\* has its units.
MissingTargetOutcome ==
    (/\ prog = "consolidate" /\ pc = "exited"
     /\ IsArray(sourceFile) /\ IsArray(targetFile)
     /\ \E i \in 1..Len(sourceFile.a) : HasIdentifier(sourceFile.a[i]))
      => /\ exitCode = 0
         /\ "outputXliff" \in files
         /\ outConsolidated.t = "xliff12"
         /\ LET missing == SelectSeq(sourceData.a, MissingTarget)
            IN  /\ Len(WarnLines) = Len(missing)
                /\ \A k \in 1..Len(missing) :
                     WarnLines[k].about = Get(missing[k], kUuid).s
                /\ \A k \in 1..Len(missing) :
                     \A u \in Range(outConsolidated.units) :
                       \A f \in Range(translatableFields) :
                         XmlDecode(u.id)
                           # Get(missing[k], kUuid).s \o Underscore \o f
         /\ \A p \in MatchedPairs :
              NonBlankText(Get(sourceData.a[p[1]], translatableFields[p[2]]))
                => \E u \in Range(outConsolidated.units) :
                     DecodedUnit(u)
                       = ClaimedUnit(p[1], translatableFields[p[2]])

\* The iteration of the source loop on a record whose identifier is in no
\* target record: a warning naming the identifier is logged, no unit is
\* added, and the loop goes on to the next record, the run still running.
MissingTargetStep ==
    (/\ prog = "consolidate" /\ pc = "units" /\ idx <= Len(sourceData.a)
     /\ MissingTarget(sourceData.a[idx]))
      => /\ pc' = "units" /\ exitCode' = -1
         /\ idx' = idx + 1
         /\ transUnits' = transUnits
         /\ Len(log') = Len(log) + 1
         /\ log'[Len(log')].level = "warn"
         /\ log'[Len(log')].about = Get(sourceData.a[idx], kUuid).s

\* C3: a source record whose identifier is in no target record gets a
\* warning and no unit, and does not abort the run: the loop continues with
\* the next record and the run ends with exit code 0, the document holding
\* the units of the remaining records.
C3_MissingTargetSkip ==
    /\ []MissingTargetOutcome
    /\ [][MissingTargetStep]_vars

C3_Witness ==
    /\ ConsDone
    /\ Len(sourceData.a) = 2
    /\ MissingTarget(sourceData.a[1])
    /\ HasIdentifier(sourceData.a[2]) /\ ~MissingTarget(sourceData.a[2])
    /\ Len(WarnLines) = 1
    /\ Len(outConsolidated.units) >= 1

---------------------------------------------------------------------------
(* C4: an empty source field.                                              *)

EmptyOrAbsent(v) == v.t = "undefined" \/ (v.t = "string" /\ Len(v.s) = 0)

\* One iteration of the source loop, on a record with a target, leaves out
\* the unit of every translatable field whose source value is empty or
\* absent, and adds the unit of every other translatable field whose source
\* value satisfies Filled.
ItemStepSkipsEmpty(filled) ==
    (/\ prog = "consolidate" /\ pc = "units" /\ idx <= Len(sourceData.a)
     /\ idx' = idx + 1
     /\ HasIdentifier(sourceData.a[idx])
     /\ InTarget(Get(sourceData.a[idx], kUuid)))
      => LET rec == sourceData.a[idx]
             id == Get(rec, kUuid).s
             added == SubSeq(transUnits', Len(transUnits) + 1, Len(transUnits'))
         IN  \A f \in Range(translatableFields) :
               EmptyOrAbsent(Get(rec, f)) =>
                 /\ \A u \in Range(added) :
                      XmlDecode(u.id) # id \o Underscore \o f
                 /\ \A g \in Range(translatableFields) \ {f} :
                      (IF filled = "non-empty"
                       THEN NonEmptyText(Get(rec, g))
                       ELSE NonBlankText(Get(rec, g)))
                        => \E u \in Range(added) :
                             /\ XmlDecode(u.id) = id \o Underscore \o g
                             /\ XmlDecode(u.source) = Get(rec, g).s

\* C4 as stated: a source record whose value for a translatable field is
\* empty or absent gets no unit for that field, whatever the target's value,
\* while its other non-empty fields still get their units.
C4_OtherNonEmptyFields == [][ItemStepSkipsEmpty("non-empty")]_vars

\* C4, amended: a source record whose value for a translatable field is
\* empty or absent gets no unit for that field, whatever the target's value,
\* while its other translatable fields whose value has at least one
\* non-whitespace character still get their units.
C4_EmptySourceFieldSkip == [][ItemStepSkipsEmpty("non-blank")]_vars

\* Source record 2 has title C and an empty body, its target has body U:
\* only the title unit was added.
C4_Witness ==
    /\ prog = "consolidate" /\ pc = "units" /\ idx = 3
    /\ translatableFields = <<kTitle, kBody>>
    /\ sourceData.a[2] = Record(tC, tEmpty, idY)
    /\ InTarget(idY)
    /\ NonEmptyText(Get(LastTarget(idY), kBody))
    /\ Len(transUnits) >= 1
    /\ XmlDecode(transUnits[Len(transUnits)].id) = idY.s \o Underscore \o kTitle

---------------------------------------------------------------------------
(* C5: no identifier in the source array.                                  *)

NoIdentifier(file) ==
    IsArray(file) /\ \A i \in 1..Len(file.a) : ~HasIdentifier(file.a[i])

\* C5: when the source file is an array with no identified record (an empty
\* array included), the run goes no further than field detection, creates
\* no directory and writes no file, and ends with exit code 1 after an
\* error line.
C5_NoIdentifierFails ==
    (prog = "consolidate" /\ NoIdentifier(sourceFile))
      => /\ pc \in {"start", "read", "validate", "generate", "fields", "exited"}
         /\ files = {}
         /\ outConsolidated = NoFile
         /\ pc # "exited" => ENABLED NextCons
         /\ pc = "exited" =>
              /\ exitCode = 1
              /\ log # <<>> /\ log[Len(log)].level = "error"

C5_Witness ==
    /\ prog = "consolidate" /\ pc = "exited" /\ exitCode = 1
    /\ NoIdentifier(sourceFile) /\ Len(sourceFile.a) = 2
    /\ IsArray(targetFile) /\ Len(targetFile.a) >= 1
    /\ log = <<Err("during consolidation")>>

---------------------------------------------------------------------------
(* C6: a top-level value that is not an array.                             *)

ParsedNonArray(file) == file.t \notin {"nofile", "invalid", "array"}
Parsed(file) == file.t \notin {"nofile", "invalid"}

\* C6: in json-to-xliff a parsed input that is not an array, and in the
\* consolidation a parsed source or target that is not an array (both files
\* being readable), ends the run at validation with exit code 1 after an
\* error line: no directory, temp file or output file exists at any point
\* and the engine step is never reached.
C6_NonArrayFails ==
    /\ (prog = "json2xliff" /\ ParsedNonArray(jsonIn))
         => /\ pc \in {"start", "read", "validate", "exited"}
            /\ files = {}
            /\ outXliff = NoFile
            /\ pc = "exited" =>
                 /\ exitCode = 1
                 /\ log # <<>> /\ log[Len(log)].level = "error"
    /\ (/\ prog = "consolidate"
        /\ Parsed(sourceFile) /\ Parsed(targetFile)
        /\ ~IsArray(sourceFile) \/ ~IsArray(targetFile))
         => /\ pc \in {"start", "read", "validate", "exited"}
            /\ files = {}
            /\ outConsolidated = NoFile
            /\ pc = "exited" =>
                 /\ exitCode = 1
                 /\ log # <<>> /\ log[Len(log)].level = "error"

C6_Witness ==
    /\ prog = "json2xliff" /\ pc = "exited" /\ exitCode = 1
    /\ jsonIn = PlainObject
    /\ log = <<Err("JSON file must contain an array")>>

---------------------------------------------------------------------------
(* C11: the number and the order of the flattener's keys.                  *)

\* The keys uuid_title, uuid_body of the records with index in I, in
\* record order.
FlatKeys(records, I) ==
    LET upTo[n \in 0..Len(records)] ==
          IF n = 0 THEN <<>>
          ELSE upTo[n - 1]
                 \o (IF n \in I
                     THEN <<Get(records[n], kUuid).s \o Underscore \o kTitle,
                            Get(records[n], kUuid).s \o Underscore \o kBody>>
                     ELSE <<>>)
    IN  upTo[Len(records)]

QualifyingRecords(records) ==
    {i \in 1..Len(records) : Carries(records[i])}

\* The qualifying records that are the first one with their uuid.
FirstQualifying(records) ==
    {i \in QualifyingRecords(records) :
       \A j \in QualifyingRecords(records) :
         j < i => Get(records[j], kUuid) # Get(records[i], kUuid)}

\* C11 as stated: the source mapping and the target mapping each have
\* 2 x (number of qualifying records) keys, in input array order.
C11_TwoKeysPerRecord ==
    FlattenDone =>
      /\ Len(sourceJson) = 2 * Cardinality(QualifyingRecords(jsonData.a))
      /\ Len(targetJson) = 2 * Cardinality(QualifyingRecords(jsonData.a))
      /\ ObjectKeys(sourceJson)
           = FlatKeys(jsonData.a, QualifyingRecords(jsonData.a))
      /\ ObjectKeys(targetJson) = ObjectKeys(sourceJson)

\* C11, amended: the source mapping and the target mapping each have
\* 2 x (number of distinct uuids of qualifying records) keys, in the order
\* in which those uuids first occur among the qualifying records of the
\* input array, title key before body key.
C11_FlattenerCardinality ==
    FlattenDone =>
      /\ Len(sourceJson) = 2 * Cardinality(FirstQualifying(jsonData.a))
      /\ Len(targetJson) = 2 * Cardinality(FirstQualifying(jsonData.a))
      /\ ObjectKeys(sourceJson)
           = FlatKeys(jsonData.a, FirstQualifying(jsonData.a))
      /\ ObjectKeys(targetJson) = ObjectKeys(sourceJson)

\* Two qualifying records with different uuids: four keys.
C11_Witness ==
    /\ prog = "json2xliff" /\ pc = "engine"
    /\ Len(jsonData.a) = 2
    /\ QualifyingRecords(jsonData.a) = {1, 2}
    /\ Get(jsonData.a[1], kUuid) # Get(jsonData.a[2], kUuid)
    /\ Len(sourceJson) = 4 /\ Len(targetJson) = 4

---------------------------------------------------------------------------
(* C12: synthesized keys.                                                  *)

\* The pairs <<record, field index>> for which the consolidation emits a
\* unit, and the place of a pair's unit in the document.
EmittedPairs ==
    {p \in MatchedPairs :
       NonBlankText(Get(sourceData.a[p[1]], translatableFields[p[2]]))}

UnitOf(p) ==
    outConsolidated.units[
      Cardinality({q \in EmittedPairs : PairBefore(q, p)}) + 1]

\* Flattener: every qualifying record has its two keys uuid_title and
\* uuid_body in the source mapping, holding values, and records with
\* distinct uuids share no key: there are two keys per distinct uuid.
FlattenerKeys ==
    FlattenDone =>
      /\ \A i \in QualifyingRecords(jsonData.a) :
           \A f \in {kTitle, kBody} :
             HasKey(sourceJson, Get(jsonData.a[i], kUuid).s \o Underscore \o f)
      /\ Len(sourceJson) =
           2 * Cardinality({Get(jsonData.a[i], kUuid) :
                              i \in QualifyingRecords(jsonData.a)})

\* Consolidator: the unit of record I and field F has the id I_F.
UnitIdsSynthesized ==
    ConsDone =>
      /\ Len(outConsolidated.units) = Cardinality(EmittedPairs)
      /\ \A p \in EmittedPairs :
           XmlDecode(UnitOf(p).id)
             = Get(sourceData.a[p[1]], kUuid).s \o Underscore
                 \o translatableFields[p[2]]

\* Consolidator: the units of two records with distinct identifiers have
\* different ids.
UnitIdsApart ==
    \A p, q \in EmittedPairs :
      Get(sourceData.a[p[1]], kUuid) # Get(sourceData.a[q[1]], kUuid)
        => UnitOf(p).id # UnitOf(q).id

HasUnderscore(text) == \E i \in 1..Len(text) : text[i] = "_"

\* C12 as stated: the key of identifier I and field F is exactly I_F, and
\* the keys of two records with distinct identifiers never collide, in the
\* flattener and in the consolidator.
C12_NeverCollide ==
    /\ FlattenerKeys
    /\ UnitIdsSynthesized
    /\ ConsDone => UnitIdsApart

\* C12, amended: the key of identifier I and field F is exactly I_F; the
\* keys of two records with distinct identifiers never collide in the
\* flattener, and never collide in the consolidator when no detected field
\* name contains "_" or no source identifier contains "_".
C12_KeySynthesis ==
    /\ FlattenerKeys
    /\ UnitIdsSynthesized
    /\ (/\ ConsDone
        /\ \/ \A f \in Range(translatableFields) : ~HasUnderscore(f)
           \/ \A p \in EmittedPairs :
                ~HasUnderscore(Get(sourceData.a[p[1]], kUuid).s))
         => UnitIdsApart

\* Identifiers X_b and X with the one detected field a: units X_b_a, X_a.
C12_Witness ==
    /\ ConsDone
    /\ translatableFields = <<fA>>
    /\ Len(sourceData.a) = 2
    /\ Get(sourceData.a[1], kUuid) = idXB
    /\ Get(sourceData.a[2], kUuid) = idX
    /\ Len(outConsolidated.units) = 2
    /\ outConsolidated.units[1].id # outConsolidated.units[2].id

---------------------------------------------------------------------------
(* C13: escapeXml.                                                         *)

MetaCharacters == {"&", "<", ">", "\"", "'"}

EntityOf(c) ==
    CASE c = "&" -> <<"&","a","m","p",";">>
      [] c = "<" -> <<"&","l","t",";">>
      [] c = ">" -> <<"&","g","t",";">>
      [] c = "\"" -> <<"&","q","u","o","t",";">>
      [] c = "'" -> <<"&","a","p","o","s",";">>
      [] OTHER -> <<c>>

\* Every character of s replaced by its entity, the others kept.
EachCharacterEscaped(s) ==
    LET upTo[n \in 0..Len(s)] ==
          IF n = 0 THEN <<>> ELSE upTo[n - 1] \o EntityOf(s[n])
    IN  upTo[Len(s)]

EscapeReturned == prog = "escapeXml" /\ pc = "returned"

\* C13: for every string, escapeXml returns the string with each of
\* & < > " ' replaced by its entity and every other character unchanged
\* (so no entity is escaped again); a text without the five characters
\* comes back unchanged, "a & b < c" gives "a &amp; b &lt; c", and the
\* empty string and undefined give the empty string.
C13_EscapeXml ==
    EscapeReturned =>
      /\ callText.t = "string"
           => callResult = Str(EachCharacterEscaped(callText.s))
      /\ (callText.t = "string" /\ Range(callText.s) \cap MetaCharacters = {})
           => callResult = callText
      /\ callText = tSample
           => callResult
                = Str(<<"a"," ","&","a","m","p",";"," ","b"," ",
                        "&","l","t",";"," ","c">>)
      /\ callText \in {Undefined, Str(<<>>)} => callResult = Str(<<>>)

\* "<&" gives "&lt;&amp;": the "&" of the first entity is not escaped again.
C13_Witness ==
    /\ EscapeReturned
    /\ callText = Str(<<"<", "&">>)
    /\ callResult = Str(<<"&","l","t",";","&","a","m","p",";">>)

---------------------------------------------------------------------------
(* C14: the temp files of json-to-xliff.js.                                *)

\* json-to-xliff.js has ended after writing its temp files: its input
\* passed the array test, so lines 84-85 ran.
EndedAfterTempFiles ==
    prog = "json2xliff" /\ pc = "exited" /\ IsArray(jsonData)

CleanupWarned == \E i \in 1..Len(log) : log[i].level = "warn"

\* C14: once the temp files are written, they are gone when the process
\* ends, whether the engine succeeded, failed, or returned without its
\* output file, unless the cleanup itself failed; a failed cleanup only
\* adds a warning: the exit code is 0 exactly when the output document was
\* written.
C14_TempFilesRemoved ==
    EndedAfterTempFiles =>
      /\ ~CleanupWarned => files \cap TempFiles = {}
      /\ exitCode = (IF "outputXliff" \in files THEN 0 ELSE 1)

---------------------------------------------------------------------------
(* C15, C16: matched mode of the reconstructor.                            *)

\* A key <identifier>_<title|body> whose identifier has 36 characters, each
\* a lower-case hex digit or a hyphen.
KeyMatches(key) == FieldOfKey(key) # <<>> /\ LooseId(IdOfKey(key))

MatchedIds(flat) ==
    {IdOfKey(flat[i].k) : i \in {j \in 1..Len(flat) : KeyMatches(flat[j].k)}}

\* The value at key, or the empty string when the key is absent.
ValueOrEmpty(flat, key) ==
    IF HasKey(flat, key) THEN Get(flat, key) ELSE Str(<<>>)

RecordOfId(flat, u) ==
    <<Prop(kTitle, ValueOrEmpty(flat, u \o Underscore \o kTitle)),
      Prop(kBody, ValueOrEmpty(flat, u \o Underscore \o kBody)),
      Prop(kUuid, Str(u))>>

\* The number of output records with uuid u.
RecordsOfId(records, u) ==
    Cardinality({i \in 1..Len(records) : Get(records[i], kUuid) = Str(u)})

OneRecordPerId ==
    (ReconstructDone /\ MatchedIds(flatJsonData) # {})
      => /\ Len(outJson) = Cardinality(MatchedIds(flatJsonData))
         /\ \A u \in MatchedIds(flatJsonData) :
              /\ RecordsOfId(outJson, u) = 1
              /\ RecordOfId(flatJsonData, u) \in Range(outJson)

\* A key of an identifier that has its record adds no record.
LaterKeyAddsNothing ==
    (/\ prog = "xliff2json" /\ pc = "group" /\ idx <= Len(flatJsonData)
     /\ idx' = idx + 1
     /\ KeyMatches(flatJsonData[idx].k)
     /\ RecordsOfId(transformedData, IdOfKey(flatJsonData[idx].k)) > 0)
      => transformedData' = transformedData

\* C15: in matched mode the output has exactly one record per distinct
\* identifier of a matching key, with uuid = the identifier, title = the
\* value at identifier_title and body = the value at identifier_body, the
\* empty string standing in for an absent key; a later key of an identifier
\* that already has its record never adds a second one.
C15_OneRecordPerIdentifier ==
    /\ []OneRecordPerId
    /\ [][LaterKeyAddsNothing]_vars

\* Keys U1_title, U1_body, U2_body: two records, the second with title "".
C15_Witness ==
    /\ ReconstructDone
    /\ ObjectKeys(flatJsonData)
         = <<SynthKey(U1, kTitle), SynthKey(U1, kBody), SynthKey(U2, kBody)>>
    /\ Len(outJson) = 2
    /\ Get(outJson[2], kTitle) = Str(<<>>)
    /\ Get(outJson[2], kUuid) = Str(U2)

\* The place of the first key of identifier u among the keys of flat.
FirstKeyOf(flat, u) ==
    CHOOSE i \in 1..Len(flat) :
      /\ KeyMatches(flat[i].k) /\ IdOfKey(flat[i].k) = u
      /\ \A j \in 1..(i - 1) :
           ~(KeyMatches(flat[j].k) /\ IdOfKey(flat[j].k) = u)

\* C16: the records of the output array are in the order in which their
\* identifiers first occur among the keys of the input mapping.
C16_OutputOrder ==
    (ReconstructDone /\ MatchedIds(flatJsonData) # {})
      => /\ \A i \in 1..Len(outJson) :
              Get(outJson[i], kUuid).s \in MatchedIds(flatJsonData)
         /\ \A i, j \in 1..Len(outJson) :
              i < j => FirstKeyOf(flatJsonData, Get(outJson[i], kUuid).s)
                         < FirstKeyOf(flatJsonData, Get(outJson[j], kUuid).s)

\* Keys U2_body, U1_title, U2_title: the record of U2 comes first.
C16_Witness ==
    /\ ReconstructDone
    /\ ObjectKeys(flatJsonData)
         = <<SynthKey(U2, kBody), SynthKey(U1, kTitle), SynthKey(U2, kTitle)>>
    /\ Len(outJson) = 2
    /\ Get(outJson[1], kUuid) = Str(U2)
    /\ Get(outJson[2], kUuid) = Str(U1)

---------------------------------------------------------------------------
(* C17: field detection.                                                   *)

\* The first source record that has an identifier.
FirstIdentified ==
    sourceData.a[CHOOSE i \in 1..Len(sourceData.a) :
                   /\ HasIdentifier(sourceData.a[i])
                   /\ \A j \in 1..(i - 1) : ~HasIdentifier(sourceData.a[j])]

\* The fields of that record, other than the identifier, whose value is a
\* string that is non-empty, or that has a non-whitespace character.
FieldsOfFirst(filled) ==
    {f \in Range(ObjectKeys(FirstIdentified)) \ {kUuid} :
       IF filled = "non-empty"
       THEN NonEmptyText(Get(FirstIdentified, f))
       ELSE NonBlankText(Get(FirstIdentified, f))}

FieldsDetected ==
    prog = "consolidate" /\ (pc = "units" \/ (pc = "exited" /\ exitCode = 0))

\* An iteration of the source loop adds units only for fields of the
\* detected set that the record has.
UnitsOnlyForDetected(filled) ==
    (/\ prog = "consolidate" /\ pc = "units" /\ idx <= Len(sourceData.a)
     /\ idx' = idx + 1)
      => LET rec == sourceData.a[idx]
             added == SubSeq(transUnits', Len(transUnits) + 1, Len(transUnits'))
         IN  \A u \in Range(added) :
               \E f \in FieldsOfFirst(filled) :
                 /\ HasKey(rec, f)
                 /\ XmlDecode(u.id) = Get(rec, kUuid).s \o Underscore \o f

\* C17 as stated: the translatable fields are exactly the fields, other
\* than the identifier, of the first source record with an identifier whose
\* value is a non-empty string; every source record is processed with that
\* set: a field outside it never gets a unit, and a record lacking a field
\* of the set gets no unit for it.
C17_NonEmptyStringFields ==
    /\ [](FieldsDetected
            => Range(translatableFields) = FieldsOfFirst("non-empty"))
    /\ [][UnitsOnlyForDetected("non-empty")]_vars

\* C17, amended: the translatable fields are exactly the fields, other than
\* the identifier, of the first source record with an identifier whose
\* value is a string with at least one non-whitespace character; every
\* source record is processed with that set: a field outside it never gets
\* a unit, and a record lacking a field of the set gets no unit for it.
C17_FieldDetection ==
    /\ [](FieldsDetected
            => Range(translatableFields) = FieldsOfFirst("non-blank"))
    /\ [][UnitsOnlyForDetected("non-blank")]_vars

\* First record Z with a title only, then X with title and body: one unit
\* each, none for the body of X.
C17_Witness ==
    /\ ConsDone
    /\ sourceData.a = <<Record(tMarkup, Undefined, idZ), Record(tA, tB, idX)>>
    /\ translatableFields = <<kTitle>>
    /\ InTarget(idZ) /\ InTarget(idX)
    /\ Len(outConsolidated.units) = 2

---------------------------------------------------------------------------
(* C18: unit ids.                                                          *)

DistinctIdentifiers(records) ==
    \A i, j \in 1..Len(records) :
      (i # j /\ HasIdentifier(records[i]) /\ HasIdentifier(records[j]))
        => Get(records[i], kUuid) # Get(records[j], kUuid)

UnitIdsDistinct ==
    \A i, j \in 1..Len(outConsolidated.units) :
      i # j => outConsolidated.units[i].id # outConsolidated.units[j].id

\* C18 as stated: in every document written from a source array whose
\* records have pairwise distinct identifiers, no two units have the same
\* id, whatever the identifiers and the detected field names are.
C18_AlwaysDistinct ==
    (ConsDone /\ DistinctIdentifiers(sourceData.a)) => UnitIdsDistinct

\* C18, amended: in every document written from a source array whose
\* records have pairwise distinct identifiers, no two units have the same
\* id, provided that no detected field name contains "_" or no source
\* identifier contains "_".
C18_UnitIdsUnique ==
    (/\ ConsDone /\ DistinctIdentifiers(sourceData.a)
     /\ \/ \A f \in Range(translatableFields) : ~HasUnderscore(f)
        \/ \A i \in 1..Len(sourceData.a) :
             HasIdentifier(sourceData.a[i])
               => ~HasUnderscore(Get(sourceData.a[i], kUuid).s))
      => UnitIdsDistinct

\* Identifiers X and Y with detected fields a and b_a: X_a, X_b_a, Y_a.
C18_Witness ==
    /\ ConsDone
    /\ translatableFields = <<fA, fBA>>
    /\ Len(sourceData.a) = 2
    /\ Get(sourceData.a[1], kUuid) = idX
    /\ Get(sourceData.a[2], kUuid) = idY
    /\ Len(outConsolidated.units) = 3
    /\ UnitIdsDistinct

---------------------------------------------------------------------------
(* C19: values of any type.                                                *)

\* A record with an identifier of any type: a non-empty string or a number
\* other than 0.
HasAnyIdentifier(rec) ==
    \/ NonEmptyText(Get(rec, kUuid))
    \/ (Get(rec, kUuid).t = "number" /\ Get(rec, kUuid).n # 0)

\* C19: on a source array with an identified record and a target array,
\* whatever the types of the identifiers and of the field values, the
\* consolidation raises no error: it ends with exit code 0, no error line,
\* the document written, and the unit count equal to the number of units in
\* the document.
C19_Total ==
    (/\ prog = "consolidate" /\ pc = "exited"
     /\ IsArray(sourceFile) /\ IsArray(targetFile)
     /\ \E i \in 1..Len(sourceFile.a) : HasAnyIdentifier(sourceFile.a[i]))
      => /\ exitCode = 0
         /\ \A i \in 1..Len(log) : log[i].level # "error"
         /\ outConsolidated.t = "xliff12"
         /\ "outputXliff" \in files
         /\ unitCount = Len(outConsolidated.units)

===========================================================================
